---- MODULE Spec2Model ----
(***************************************************************************)
(* Model of src/main.py: the dog-listing digest.  One run checks its       *)
(* configuration, acquires a token, pages through the listing API for each *)
(* configured zip code, filters / deduplicates / sorts the listings, asks  *)
(* for a narrative, builds the report and hands it to SMTP.                *)
(*                                                                         *)
(* Text is modelled as a sequence of one-character strings, so that        *)
(* lower(), strip(), join() and the substring test do what the Python      *)
(* built-ins do.  A timestamp string is either ISO text carrying an hour   *)
(* count on a common UTC axis, or text that datetime.fromisoformat rejects.*)
(***************************************************************************)
EXTENDS Integers, Sequences, FiniteSets, TLC

VARIABLES
    pc,              \* position of the run in main() / fetch_all_animals()
    missing,         \* main(): the required settings that are empty
    ZIP_CODES,       \* the configured search centers, in order
    upstream,        \* snapshot of the listing API's holdings per zip (<<>>: none)
    zi,              \* fetch_all_animals: index of the zip being processed
    page,            \* collect_animals_for_zip: page
    results,         \* collect_animals_for_zip: results (then `animals`)
    all_animals,     \* fetch_all_animals: dict values, in insertion order
    sorted_animals,  \* fetch_all_animals: the returned list
    top_dogs_html,   \* main: the narrative string
    report,          \* main: what build_html_table produced
    handed,          \* main: send_email has been called with the report
    requested,       \* observer: pages requested by the current collect call
    oldTailPage,     \* observer: first page of this call whose last listing is pre-cutoff
    calls,           \* observer: collect calls made per zip index
    received,        \* observer: per zip index, pages of the snapshot received so far
    callFailed,      \* observer: a fetch of the current collect call has failed
    stoppedBy,       \* observer: what ended the current collect call
    firstFailure,    \* observer: zip index and page of the run's first failed fetch
    owed,            \* observer: ids received in a page with an in-window, allowed listing
    origin,          \* observer: zip index that contributed each entry of all_animals
    dupKinds,        \* observer: kinds of duplicate the aggregator has skipped
    breeds_arg,      \* breed_excluded: the argument of a stand-alone call
    verdict          \* breed_excluded: the result of that call

vars == <<pc, missing, ZIP_CODES, upstream, zi, page, results, all_animals,
          sorted_animals, top_dogs_html, report, handed, requested, oldTailPage,
          calls, received, callFailed, stoppedBy, firstFailure, owed, origin,
          dupKinds, breeds_arg, verdict>>

confVars == <<missing, ZIP_CODES, upstream>>
callVars == <<zi, page, results, requested, oldTailPage, callFailed, stoppedBy, calls>>
aggVars == <<all_animals, origin, dupKinds>>
fetchObs == <<received, firstFailure, owed>>
mainVars == <<sorted_animals, top_dogs_html, report, handed>>
breedVars == <<breeds_arg, verdict>>

-----------------------------------------------------------------------------
(* Bounds of the model *)

MaxId == 2          \* listing ids are 1..MaxId
MaxTime == 2        \* ISO timestamps carry an hour in 0..MaxTime
MaxPages == 2       \* the API reports at most this many pages
PageLimit == 2      \* listings per page (the request's "limit")
MaxPad == 1         \* blanks that may surround a breed name
MaxPerZip == 2      \* listings one zip serves in a run, when no snapshot is given
MaxSorted == 3      \* holdings of the zip in the newest-first snapshot
MaxDedup == 1       \* holdings per zip in the two-center snapshot

-----------------------------------------------------------------------------
(* Text *)

UpperChars == <<"A","B","C","D","E","F","G","H","I","J","K","L","M",
                "N","O","P","Q","R","S","T","U","V","W","X","Y","Z">>
LowerChars == <<"a","b","c","d","e","f","g","h","i","j","k","l","m",
                "n","o","p","q","r","s","t","u","v","w","x","y","z">>

LowerChar(c) ==
    IF \E i \in 1..26 : UpperChars[i] = c
    THEN LowerChars[CHOOSE i \in 1..26 : UpperChars[i] = c]
    ELSE c

\* str.lower()
lower(s) == [i \in 1..Len(s) |-> LowerChar(s[i])]

RECURSIVE lstrip(_)
lstrip(s) == IF s # <<>> /\ Head(s) = " " THEN lstrip(Tail(s)) ELSE s

RECURSIVE rstrip(_)
rstrip(s) ==
    IF s # <<>> /\ s[Len(s)] = " " THEN rstrip(SubSeq(s, 1, Len(s) - 1)) ELSE s

\* str.strip()
strip(s) == rstrip(lstrip(s))

\* " ".join(names)
RECURSIVE join(_)
join(names) ==
    IF names = <<>> THEN <<>>
    ELSE IF Len(names) = 1 THEN names[1]
    ELSE names[1] \o <<" ">> \o join(Tail(names))

\* needle in hay
Contains(hay, needle) ==
    \E i \in 0..(Len(hay) - Len(needle)) : SubSeq(hay, i + 1, i + Len(needle)) = needle

\* A field of a JSON object: a string, or anything else (None, a number, absent).
Str(s) == [isStr |-> TRUE, s |-> s]
NotStr == [isStr |-> FALSE, s |-> <<>>]

\* A breeds value: a dict with its two fields, or something that is no dict.
Breeds(p, s) == [isDict |-> TRUE, primary |-> p, secondary |-> s]
NotADict == [isDict |-> FALSE, primary |-> NotStr, secondary |-> NotStr]

EXCLUDED_BREEDS ==
    { <<"H","u","s","k","y">>,
      <<"C","o","o","n","h","o","u","n","d">>,
      <<"P","i","t"," ","B","u","l","l">>,
      <<"J","a","c","k"," ","R","u","s","s","e","l","l"," ","T","e","r","r","i","e","r">>,
      <<"G","e","r","m","a","n"," ","S","h","e","p","h","e","r","d">>,
      <<"C","a","r","o","l","i","n","a"," ","D","o","g"," ","M","i","x">>,
      <<"B","u","l","l"," ","T","e","r","r","i","e","r">>,
      <<"C","h","i","h","u","a","h","u","a">>,
      <<"R","h","o","d","e","s","i","a","n"," ","R","i","d","g","e","b","a","c","k">>,
      <<"R","o","t","t","w","e","i","l","e","r">>,
      <<"E","n","g","l","i","s","h"," ","B","u","l","l","d","o","g">>,
      <<"A","m","e","r","i","c","a","n"," ","S","t","a","f","f","o","r","d","s","h","i","r","e"," ","T","e","r","r","i","e","r">>,
      <<"D","o","b","e","r","m","a","n"," ","P","i","n","s","c","h","e","r">>,
      <<"G","r","e","a","t"," ","P","y","r","e","n","e","e","s">>,
      <<"B","o","x","e","r">>,
      <<"H","o","u","n","d">>,
      <<"A","m","e","r","i","c","a","n"," ","B","u","l","l","d","o","g">> }

\* The names list breed_excluded builds: the stripped, non-blank string fields.
BreedNames(breeds_obj) ==
    LET keep(v) == IF v.isStr /\ strip(v.s) # <<>> THEN <<strip(v.s)>> ELSE <<>>
    IN  IF breeds_obj.isDict
        THEN keep(breeds_obj.primary) \o keep(breeds_obj.secondary)
        ELSE <<>>

\* A slip: the text is compared without lower-casing it.
breed_excluded_CaseSensitive(breeds_obj) ==
    LET text == join(BreedNames(breeds_obj))
    IN  \E banned \in EXCLUDED_BREEDS : Contains(text, lower(banned))

breed_excluded(breeds_obj) ==
    LET text == join(BreedNames(breeds_obj))
        low  == lower(text)
    IN  \E banned \in EXCLUDED_BREEDS : Contains(low, lower(banned))

-----------------------------------------------------------------------------
(* Configuration and constants *)

RequiredKeys ==
    {"PETFINDER_CLIENT_ID", "PETFINDER_CLIENT_SECRET", "SMTP_HOST", "SMTP_PORT",
     "SMTP_USER", "SMTP_PASS", "SENDER_EMAIL"}

DEFAULT_ZIPS == <<"08401", "11211", "19003">>

\* Hours on the common UTC axis.  NOW_UTC is captured once, at import.
NOW_UTC == 7
LOOKBACK_HOURS == 6
CUTOFF_UTC == NOW_UTC - LOOKBACK_HOURS

\* datetime.fromtimestamp(0, tz=utc): before every timestamp the API serves.
EPOCH == -1

-----------------------------------------------------------------------------
(* Listings *)

Ids == 1..MaxId
Times == 0..MaxTime

Iso(t) == [iso |-> TRUE, t |-> t]
NotADate == [iso |-> FALSE, t |-> 0]
PubValues == {Iso(t) : t \in Times} \cup {NotADate}

Labrador == Breeds(Str(<<"L","a","b","r","a","d","o","r"," ","R","e","t","r","i","e","v","e","r">>), NotStr)
AfghanHound == Breeds(Str(<<"A","f","g","h","a","n"," ","H","o","u","n","d">>), NotStr)
PipelineBreeds == {Labrador, AfghanHound}

\* Every listing the API serves carries an id, a published_at text and breeds.
Listings == [id : Ids, published_at : PubValues, breeds : PipelineBreeds]

NoneDt == [some |-> FALSE, dt |-> 0]

parse_dt(dt_str) == IF dt_str.iso THEN [some |-> TRUE, dt |-> dt_str.t] ELSE NoneDt

\* A slip: a timestamp that does not parse counts as recent.
within_24_hours_Lenient(published_at_str) ==
    LET dt == parse_dt(published_at_str)
    IN  ~dt.some \/ dt.dt >= CUTOFF_UTC

within_24_hours(published_at_str) ==
    LET dt == parse_dt(published_at_str)
    IN  dt.some /\ dt.dt >= CUTOFF_UTC

\* breed_excluded on the breeds the pipeline's listings carry, computed once.
ExcludedVerdict == [b \in PipelineBreeds |-> breed_excluded(b)]

-----------------------------------------------------------------------------
(* collect_animals_for_zip: one iteration of the while loop *)

\* A response of the listing API: a failure (raise_for_status, a transport
\* error) or a page with its pagination block (total_pages 0: absent).
Response(ok, animals, total) == [ok |-> ok, animals |-> animals, total_pages |-> total]
Failure == Response(FALSE, <<>>, 0)

Exhausted(p, reported) ==
    LET total_pages == IF reported = 0 THEN p ELSE reported
    IN  p >= total_pages

\* A slip: a last listing published exactly at the cutoff stops the paging.
EarlyStop_AtCutoff(animals) ==
    LET last_published == parse_dt(animals[Len(animals)].published_at)
    IN  last_published.some /\ last_published.dt <= CUTOFF_UTC

\* A slip: the early stop is never taken.
EarlyStop_Never(animals) == FALSE

EarlyStop(animals) ==
    LET last_published == parse_dt(animals[Len(animals)].published_at)
    IN  last_published.some /\ last_published.dt < CUTOFF_UTC

\* A slip: a failed fetch is tried again.
OnFetchError_Retry == "retry"

\* Every except branch ends in break.
OnFetchError == "break"

\* A slip: a failed fetch discards what the call had accumulated.
Accumulate_DropOnFailure(acc, resp) ==
    IF resp.ok THEN acc \o resp.animals ELSE <<>>

\* results.extend(animals), reached only for a non-empty page.
Accumulate(acc, resp) ==
    IF resp.ok /\ resp.animals # <<>> THEN acc \o resp.animals ELSE acc

LoopDecision(p, resp) ==
    IF ~resp.ok THEN OnFetchError
    ELSE IF resp.animals = <<>> THEN "break"
    ELSE IF Exhausted(p, resp.total_pages) THEN "break"
    ELSE IF EarlyStop(resp.animals) THEN "break"
    ELSE "next"

-----------------------------------------------------------------------------
(* fetch_all_animals: the admission loop and the sort *)

IdsOf(seq) == {seq[i].id : i \in 1..Len(seq)}

\* A slip: a later copy replaces the admitted one.
AdmitOne_LastWins(all, a) ==
    IF ~within_24_hours(a.published_at) THEN all
    ELSE IF ExcludedVerdict[a.breeds] THEN all
    ELSE IF a.id \in IdsOf(all)
         THEN [i \in 1..Len(all) |-> IF all[i].id = a.id THEN a ELSE all[i]]
         ELSE Append(all, a)

\* A slip: the membership test is missing and the store is a list.
AdmitOne_NoDedup(all, a) ==
    IF ~within_24_hours(a.published_at) THEN all
    ELSE IF ExcludedVerdict[a.breeds] THEN all
    ELSE Append(all, a)

\* Lines 277-283: window check, then breed check, then first-seen-wins.
AdmitOne(all, a) ==
    IF ~within_24_hours(a.published_at) THEN all
    ELSE IF ExcludedVerdict[a.breeds] THEN all
    ELSE IF a.id \notin IdsOf(all) THEN Append(all, a)
    ELSE all

RECURSIVE AdmitAll(_, _)
AdmitAll(all, animals) ==
    IF animals = <<>> THEN all
    ELSE AdmitAll(AdmitOne(all, Head(animals)), Tail(animals))

SortKey(x) ==
    LET dt == parse_dt(x.published_at)
    IN  IF dt.some THEN dt.dt ELSE EPOCH

\* A slip: reverse=True is missing.
InsertSorted_Ascending(acc, x) ==
    LET n == Cardinality({i \in 1..Len(acc) : SortKey(acc[i]) <= SortKey(x)})
    IN  SubSeq(acc, 1, n) \o <<x>> \o SubSeq(acc, n + 1, Len(acc))

\* Stable, descending: x goes after every element whose key is not smaller.
InsertSorted(acc, x) ==
    LET n == Cardinality({i \in 1..Len(acc) : SortKey(acc[i]) >= SortKey(x)})
    IN  SubSeq(acc, 1, n) \o <<x>> \o SubSeq(acc, n + 1, Len(acc))

RECURSIVE SortFrom(_, _)
SortFrom(acc, rest) ==
    IF rest = <<>> THEN acc ELSE SortFrom(InsertSorted(acc, Head(rest)), Tail(rest))

\* sorted(all_animals.values(), key=..., reverse=True)
Sorted(values) == SortFrom(<<>>, values)

-----------------------------------------------------------------------------
(* What the claims are stated in: the predicates of the specification,     *)
(* written independently of the code's operators.                          *)

\* isWithinWindow: the timestamp parses and is not earlier than the cutoff.
IsWithinWindow(L) == L.published_at.iso /\ L.published_at.t >= CUTOFF_UTC

\* term occurs in text at some offset, compared letter by letter without case.
OccursIn(term, text) ==
    \E off \in 0..Len(text) :
        /\ off + Len(term) <= Len(text)
        /\ \A j \in 1..Len(term) : LowerChar(text[off + j]) = LowerChar(term[j])

\* s without the blanks around it: from its first to its last non-blank.
Trimmed(s) ==
    LET solid == {i \in 1..Len(s) : s[i] # " "}
    IN  IF solid = {} THEN <<>>
        ELSE SubSeq(s, CHOOSE i \in solid : \A k \in solid : i <= k,
                       CHOOSE i \in solid : \A k \in solid : i >= k)

\* The breed names a breeds value gives: its non-blank string fields.
NamesOf(b) ==
    LET name(v) == IF v.isStr /\ Trimmed(v.s) # <<>> THEN <<Trimmed(v.s)>> ELSE <<>>
    IN  IF b.isDict THEN name(b.primary) \o name(b.secondary) ELSE <<>>

\* The two names joined by one space (one name alone when the other is absent).
JoinedNames(b) ==
    LET n == NamesOf(b)
    IN  IF Len(n) = 2 THEN n[1] \o <<" ">> \o n[2]
        ELSE IF Len(n) = 1 THEN n[1] ELSE <<>>

\* isBreedExcluded on trimmed names.
IsBreedExcluded(b) == \E term \in EXCLUDED_BREEDS : OccursIn(term, JoinedNames(b))

ExcludedByBreed == [b \in PipelineBreeds |-> IsBreedExcluded(b)]

\* A listing the report should show.
Admissible(L) == IsWithinWindow(L) /\ ~ExcludedByBreed[L.breeds]

SeqsUpTo(S, n) == UNION {[1..k -> S] : k \in 0..n}

Min(a, b) == IF a <= b THEN a ELSE b

-----------------------------------------------------------------------------
(* The listing API *)

\* Without a snapshot the API may answer a request with any page: at most
\* PageLimit listings, no more than MaxPerZip per zip in a run, and a page
\* count of at most MaxPages (0: no pagination block).
LazyResponses(p, served) ==
    {Failure}
    \cup {Response(TRUE, <<>>, 0)}
    \cup IF p > MaxPages THEN {}
         ELSE {Response(TRUE, animals, total) :
                 animals \in SeqsUpTo(Listings, Min(PageLimit, MaxPerZip - served)) \ {<<>>},
                 total \in 0..MaxPages}

\* With a snapshot the API serves slices of the zip's holdings and reports
\* their page count, or fails.
PageCount(holdings) == (Len(holdings) + PageLimit - 1) \div PageLimit

SnapshotPage(holdings, p) ==
    SubSeq(holdings, (p - 1) * PageLimit + 1, Min(p * PageLimit, Len(holdings)))

SnapshotResponses(holdings, p) ==
    {Failure, Response(TRUE, SnapshotPage(holdings, p), PageCount(holdings))}

-----------------------------------------------------------------------------
(* Actions *)

NoFailure == [zip |-> 0, page |-> 0]

\* The run's variables before main() is entered.
Fresh(zips, snapshot, unset) ==
    /\ missing = unset
    /\ ZIP_CODES = zips
    /\ upstream = snapshot
    /\ zi = 0
    /\ page = 0
    /\ results = <<>>
    /\ all_animals = <<>>
    /\ sorted_animals = <<>>
    /\ top_dogs_html = ""
    /\ report = [rows |-> 0, placeholder |-> FALSE, narrative |-> ""]
    /\ handed = FALSE
    /\ requested = <<>>
    /\ oldTailPage = 0
    /\ calls = [z \in 1..Len(zips) |-> 0]
    /\ received = [z \in 1..Len(zips) |-> 0]
    /\ callFailed = FALSE
    /\ stoppedBy = "running"
    /\ firstFailure = NoFailure
    /\ owed = {}
    /\ origin = <<>>
    /\ dupKinds = {}

\* main(), lines 419-433: the pre-flight check.
Preflight ==
    /\ pc = "main"
    /\ pc' = IF missing # {} THEN "exit1" ELSE "get_token"
    /\ UNCHANGED <<confVars, callVars, aggVars, fetchObs, mainVars, breedVars>>

\* Entering collect_animals_for_zip for the zip at index z.
EnterCollect(z) ==
    /\ zi' = z
    /\ page' = 1
    /\ results' = <<>>
    /\ requested' = <<>>
    /\ oldTailPage' = 0
    /\ callFailed' = FALSE
    /\ stoppedBy' = "running"
    /\ calls' = [calls EXCEPT ![z] = @ + 1]

\* get_token(), lines 82-93, called at line 271: raise_for_status, a transport
\* error or a body without access_token raises, and nothing catches it.
GetToken ==
    /\ pc = "get_token"
    /\ \E ok \in BOOLEAN :
        IF ok
        THEN /\ pc' = "collect"
             /\ EnterCollect(1)
        ELSE /\ pc' = "crashed"
             /\ UNCHANGED callVars
    /\ UNCHANGED <<confVars, aggVars, fetchObs, mainVars, breedVars>>

\* One iteration of the while loop of collect_animals_for_zip, lines 227-267,
\* for the response resp.
CollectStep(resp) ==
    LET decision == LoopDecision(page, resp)
        got      == resp.ok /\ resp.animals # <<>>
        last     == resp.animals[Len(resp.animals)]
    IN  /\ results' = Accumulate(results, resp)
        /\ page' = IF decision = "next" THEN page + 1 ELSE page
        /\ pc' = IF decision \in {"next", "retry"} THEN "collect" ELSE "admit"
        /\ requested' = Append(requested, page)
        /\ oldTailPage' =
              IF oldTailPage = 0 /\ got /\ last.published_at.iso
                                 /\ last.published_at.t < CUTOFF_UTC
              THEN page ELSE oldTailPage
        /\ received' = IF upstream # <<>> /\ resp.ok
                        THEN [received EXCEPT ![zi] = @ + 1] ELSE received
        /\ callFailed' = (callFailed \/ ~resp.ok)
        /\ stoppedBy' =
              IF ~resp.ok THEN "failure"
              ELSE IF resp.animals = <<>> THEN "empty_page"
              ELSE IF resp.total_pages = 0 \/ page >= resp.total_pages THEN "exhausted"
              ELSE IF last.published_at.iso /\ last.published_at.t < CUTOFF_UTC
                   THEN "old_tail"
              ELSE "running"
        /\ firstFailure' = IF ~resp.ok /\ firstFailure = NoFailure
                            THEN [zip |-> zi, page |-> page] ELSE firstFailure
        /\ owed' = owed \cup
              {resp.animals[i].id : i \in {k \in 1..Len(resp.animals) :
                                              Admissible(resp.animals[k])}}
        /\ UNCHANGED <<confVars, zi, calls, aggVars, mainVars, breedVars>>

\* The request of line 239 against an API that may answer anything.
FetchPage ==
    /\ pc = "collect"
    /\ \E resp \in LazyResponses(page, Len(results)) : CollectStep(resp)

\* The request of line 239 against the snapshot.
FetchSnapshotPage ==
    /\ pc = "collect"
    /\ \E resp \in SnapshotResponses(upstream[zi], page) : CollectStep(resp)

\* Lines 276-283 for the zip just collected, then the next zip of line 274.
Admit ==
    /\ pc = "admit"
    /\ all_animals' = AdmitAll(all_animals, results)
    /\ origin' = origin \o [i \in 1..(Len(all_animals') - Len(all_animals)) |-> zi]
    /\ dupKinds' = dupKinds
          \cup (IF \E i \in 1..Len(results) :
                      Admissible(results[i]) /\ results[i].id \in IdsOf(all_animals)
                THEN {"across_centers"} ELSE {})
          \cup (IF \E i, j \in 1..Len(results) :
                      /\ i < j
                      /\ Admissible(results[i]) /\ Admissible(results[j])
                      /\ results[i].id = results[j].id
                THEN {"within_center"} ELSE {})
    /\ IF zi < Len(ZIP_CODES)
       THEN /\ pc' = "collect"
            /\ EnterCollect(zi + 1)
       ELSE /\ pc' = "sort"
            /\ UNCHANGED callVars
    /\ UNCHANGED <<confVars, fetchObs, mainVars, breedVars>>

\* Lines 284-289: the sort and the return to main.
Sort ==
    /\ pc = "sort"
    /\ sorted_animals' = Sorted(all_animals)
    /\ results' = <<>>
    /\ pc' = "analyze"
    /\ UNCHANGED <<confVars, zi, page, requested, oldTailPage, callFailed, stoppedBy,
                   calls, aggVars, fetchObs, top_dogs_html, report, handed, breedVars>>

\* analyze_dogs_with_openai, lines 143-221: every path returns a string.
Analyze ==
    /\ pc = "analyze"
    /\ \E key_set \in BOOLEAN, outcome \in {"content", "error", "empty"} :
        top_dogs_html' =
            IF ~key_set THEN "OpenAI API key not configured."
            ELSE IF sorted_animals = <<>> THEN "No dogs available for analysis."
            ELSE IF outcome = "error" THEN "Error analyzing dogs with OpenAI"
            ELSE IF outcome = "empty" THEN "OpenAI API returned empty content."
            ELSE "<ol>top dogs</ol>"
    /\ pc' = "build"
    /\ UNCHANGED <<confVars, callVars, aggVars, fetchObs, sorted_animals, report, handed,
                   breedVars>>

\* build_html_table, lines 308-402: one row per listing, or the placeholder row.
Build ==
    /\ pc = "build"
    /\ report' = [rows |-> Len(sorted_animals),
                  placeholder |-> sorted_animals = <<>>,
                  narrative |-> top_dogs_html]
    /\ pc' = "send"
    /\ UNCHANGED <<confVars, callVars, aggVars, fetchObs, sorted_animals, top_dogs_html,
                   handed, breedVars>>

\* send_email, lines 405-416, called at line 443: SMTP may raise.
Send ==
    /\ pc = "send"
    /\ handed' = TRUE
    /\ \E ok \in BOOLEAN : pc' = IF ok THEN "done" ELSE "crashed"
    /\ UNCHANGED <<confVars, callVars, aggVars, fetchObs, sorted_animals, top_dogs_html,
                   report, breedVars>>

\* A stand-alone call of breed_excluded.
BreedCheck ==
    /\ pc = "breed_excluded"
    /\ verdict' = IF breed_excluded(breeds_arg) THEN "excluded" ELSE "kept"
    /\ pc' = "returned"
    /\ UNCHANGED <<confVars, callVars, aggVars, fetchObs, mainVars, breeds_arg>>

-----------------------------------------------------------------------------
(* Specifications *)

NoBreedsArg == NotADict

\* A run with the default zips against an API that may answer anything.
Init ==
    /\ pc = "main"
    /\ \E unset \in SUBSET RequiredKeys : Fresh(DEFAULT_ZIPS, <<>>, unset)
    /\ breeds_arg = NoBreedsArg
    /\ verdict = "none"

Next == Preflight \/ GetToken \/ FetchPage \/ Admit \/ Sort \/ Analyze \/ Build \/ Send

Spec == Init /\ [][Next]_vars

NextSnapshot ==
    Preflight \/ GetToken \/ FetchSnapshotPage \/ Admit \/ Sort \/ Analyze \/ Build \/ Send

Parseable == {L \in Listings : L.published_at.iso}

NewestFirst(h) ==
    \A i \in 1..(Len(h) - 1) : h[i].published_at.t >= h[i + 1].published_at.t

\* The newest-first holdings of at most n listings, built by appending a
\* listing no newer than the last one.
NewestFirstSeqs[n \in 0..MaxSorted] ==
    IF n = 0 THEN {<<>>}
    ELSE NewestFirstSeqs[n - 1] \cup
         {Append(h, L) : <<h, L>> \in
             {p \in {x \in NewestFirstSeqs[n - 1] : Len(x) = n - 1} \X Parseable :
                 NewestFirst(Append(p[1], p[2]))}}

\* A run over one zip whose holdings the API serves newest first.
InitSorted ==
    /\ pc = "main"
    /\ \E h \in NewestFirstSeqs[MaxSorted] :
          Fresh(<<"08401">>, <<h>>, {})
    /\ breeds_arg = NoBreedsArg
    /\ verdict = "none"

SpecSorted == InitSorted /\ [][NextSnapshot]_vars

\* A run over two zips whose holdings are fixed for the run.
InitDedup ==
    /\ pc = "main"
    /\ \E h1 \in SeqsUpTo(Listings, MaxDedup + 1), h2 \in SeqsUpTo(Listings, MaxDedup) :
          Fresh(<<"08401", "11211">>, <<h1, h2>>, {})
    /\ breeds_arg = NoBreedsArg
    /\ verdict = "none"

SpecDedup == InitDedup /\ [][NextSnapshot]_vars

\* Breed names: a few words, with up to MaxPad blanks on either side.
Words ==
    { <<>>,
      <<"P","i","t">>,
      <<"B","u","l","l">>,
      <<"p","i","t"," ","b","u","l","l">>,
      <<"A","f","g","h","a","n"," ","H","o","u","n","d">>,
      <<"L","a","b","r","a","d","o","r"," ","R","e","t","r","i","e","v","e","r">>,
      <<"H","U","S","K","Y">>,
      <<"B","o","x","e","r">>,
      <<"G","r","e","a","t">>,
      <<"P","y","r","e","n","e","e","s">>,
      <<"H","o","u">>,
      <<"n","d">> }

Pad(n) == [i \in 1..n |-> " "]

FieldValues ==
    {NotStr} \cup {Str(Pad(i) \o w \o Pad(j)) : w \in Words, i \in 0..MaxPad, j \in 0..MaxPad}

BreedInputs == {NotADict} \cup {Breeds(p, s) : p \in FieldValues, s \in FieldValues}

\* A stand-alone call of breed_excluded on any breeds value.
InitBreed ==
    /\ pc = "breed_excluded"
    /\ Fresh(DEFAULT_ZIPS, <<>>, {})
    /\ breeds_arg \in BreedInputs
    /\ verdict = "none"

SpecBreed == InitBreed /\ [][BreedCheck]_vars

-----------------------------------------------------------------------------
(* Properties *)

\* fetch_all_animals has returned its list to main.
Returned == pc \in {"analyze", "build", "send", "done"} \/ (pc = "crashed" /\ handed)

Count(seq, id) == Cardinality({k \in 1..Len(seq) : seq[k].id = id})

\* C1: whatever pages the centers returned (ids repeated within a page, across
\* pages, across centers), no two elements of the collection share an id,
\* neither in the keyed store while it is filled nor in the returned list.
C1_NoTwoElementsShareAnId ==
    /\ \A i, j \in 1..Len(all_animals) :
          i # j => all_animals[i].id # all_animals[j].id
    /\ \A i, j \in 1..Len(sorted_animals) :
          i # j => sorted_animals[i].id # sorted_animals[j].id

\* A returned list of two listings, after the aggregator skipped a repeated id
\* both within one center's listings and across centers.
C1_Witness ==
    /\ Returned
    /\ Len(sorted_animals) = 2
    /\ dupKinds = {"within_center", "across_centers"}

\* The listings zip z has returned: the snapshot pages received from it.
ReturnedFrom(z) ==
    SubSeq(upstream[z], 1, Min(Len(upstream[z]), received[z] * PageLimit))

RECURSIVE ReturnedUpTo(_)
ReturnedUpTo(z) == IF z = 0 THEN <<>> ELSE ReturnedUpTo(z - 1) \o ReturnedFrom(z)

\* Every returned copy of id that passes both filters, in processing order.
PassingCopies(id) ==
    SelectSeq(ReturnedUpTo(Len(ZIP_CODES)), LAMBDA L : L.id = id /\ Admissible(L))

\* C2 as stated: two copies of one id with different content, returned by two
\* centers, leave exactly one entry for the id, and it is a copy returned by
\* the earlier of the two centers.
C2_CopyOfTheFirstCenter ==
    Returned =>
        \A za, zb \in 1..Len(ZIP_CODES) :
            \A i \in 1..Len(ReturnedFrom(za)), j \in 1..Len(ReturnedFrom(zb)) :
                LET a == ReturnedFrom(za)[i]
                    b == ReturnedFrom(zb)[j]
                IN  (za < zb /\ a.id = b.id /\ a # b) =>
                        /\ Count(sorted_animals, a.id) = 1
                        /\ \E k \in 1..Len(sorted_animals), m \in 1..Len(ReturnedFrom(za)) :
                              /\ sorted_animals[k].id = a.id
                              /\ sorted_animals[k] = ReturnedFrom(za)[m]

\* C2 amended: for every id the collection holds at most one entry; it holds
\* one exactly when some returned copy of the id passes the window and breed
\* filters, and the entry is the first passing copy in processing order.
C2_FirstPassingCopyWins ==
    Returned =>
        \A id \in Ids :
            IF PassingCopies(id) = <<>>
            THEN Count(sorted_animals, id) = 0
            ELSE /\ Count(sorted_animals, id) = 1
                 /\ \E k \in 1..Len(sorted_animals) :
                       sorted_animals[k] = PassingCopies(id)[1]

\* Both centers returned a copy of one id, the copies differ and both pass the
\* filters; the collection holds the first center's.
C2_Witness ==
    /\ Returned
    /\ Len(ZIP_CODES) = 2
    /\ \E i \in 1..Len(ReturnedFrom(1)), j \in 1..Len(ReturnedFrom(2)) :
          LET a == ReturnedFrom(1)[i]
              b == ReturnedFrom(2)[j]
          IN  /\ a.id = b.id /\ a # b
              /\ Admissible(a) /\ Admissible(b)
              /\ sorted_animals = <<a>>

\* C3: adjacent elements of the returned list are in descending order of
\* their (parsed) publication time.
C3_NewestFirst ==
    Returned =>
        \A i \in 1..(Len(sorted_animals) - 1) :
            /\ sorted_animals[i].published_at.iso
            /\ sorted_animals[i + 1].published_at.iso
            /\ sorted_animals[i].published_at.t >= sorted_animals[i + 1].published_at.t

\* Two centers contributed; the older listing was admitted first and the sort
\* moved the newer one ahead of it.
C3_Witness ==
    /\ Returned
    /\ Len(all_animals) = 2
    /\ origin[1] # origin[2]
    /\ all_animals[1].published_at.t < all_animals[2].published_at.t
    /\ sorted_animals = <<all_animals[2], all_animals[1]>>

\* C4: once a page received by a collect call ends in a listing published
\* strictly before the cutoff, that call requests no later page, and no zip
\* gets a second call.
C4_NoRequestAfterOldTail ==
    /\ oldTailPage # 0 => \A i \in 1..Len(requested) : requested[i] <= oldTailPage
    /\ \A z \in 1..Len(ZIP_CODES) : calls[z] <= 1

\* Page 1 ended in a pre-cutoff listing while more pages were reported: the
\* call ended after that single request.
C4_Witness ==
    /\ pc = "admit"
    /\ stoppedBy = "old_tail"
    /\ oldTailPage = 1
    /\ requested = <<1>>

\* C5: when the first failed fetch of a run hits page k >= 2 of a zip, the run
\* is not interrupted by it and the returned list holds (by id) every
\* in-window, non-excluded listing of every page that was received: the
\* failing zip's pages 1..k-1 and the pages of the zips before and after it.
C5_PartialFailureKeepsTheRest ==
    firstFailure.page >= 2 =>
        /\ pc = "crashed" => handed
        /\ Returned => owed \subseteq IdsOf(sorted_animals)

\* The second zip failed on page 2; its page 1 and the zip after it both
\* contributed an entry of the delivered report.
C5_Witness ==
    /\ pc = "done"
    /\ firstFailure = [zip |-> 2, page |-> 2]
    /\ origin = <<2, 3>>
    /\ Len(sorted_animals) = 2

\* C6 as stated: after the pre-flight check nothing interrupts the run before
\* the report is handed to the delivery channel.
C6_OnlyConfigurationErrorIsFatal == pc = "crashed" => handed

\* C7: every element of the keyed store and of the returned list has a
\* timestamp that parses and is not earlier than the cutoff, and breeds that
\* no exclusion term matches.
C7_EveryElementPassesBothFilters ==
    /\ \A i \in 1..Len(all_animals) : Admissible(all_animals[i])
    /\ \A i \in 1..Len(sorted_animals) : Admissible(sorted_animals[i])

\* The last zip returned a listing whose timestamp does not parse or is too
\* old and a recent listing of an excluded breed; neither was admitted next
\* to the entry already there.
C7_Witness ==
    /\ pc = "sort"
    /\ Len(results) = 2
    /\ ~IsWithinWindow(results[1])
    /\ IsWithinWindow(results[2]) /\ ExcludedByBreed[results[2].breeds]
    /\ Len(all_animals) = 1

\* The raw string fields of a breeds value joined by one space.
RawJoined(b) ==
    LET raw(v) == IF v.isStr THEN <<v.s>> ELSE <<>>
        n == IF b.isDict THEN raw(b.primary) \o raw(b.secondary) ELSE <<>>
    IN  IF Len(n) = 2 THEN n[1] \o <<" ">> \o n[2]
        ELSE IF Len(n) = 1 THEN n[1] ELSE <<>>

\* C8 as stated: breed_excluded is true exactly when some exclusion term is,
\* without regard to case, a substring of the primary and secondary breed
\* fields joined by a space.
C8_TermInJoinedFields ==
    pc = "returned" =>
        (verdict = "excluded" <=>
            \E term \in EXCLUDED_BREEDS : OccursIn(term, RawJoined(breeds_arg)))

\* C8 amended: breed_excluded is true exactly when some exclusion term is,
\* without regard to case, a substring of the non-blank breed names, each
\* trimmed of surrounding blanks, joined by one space; with no breed name the
\* listing is kept.
C8_TermInJoinedTrimmedNames ==
    pc = "returned" =>
        /\ verdict = "excluded" <=> IsBreedExcluded(breeds_arg)
        /\ NamesOf(breeds_arg) = <<>> => verdict = "kept"

\* A term that matches only across the two names, and only once the blanks
\* around them are trimmed: neither name alone is excluded, the pair is.
C8_Witness ==
    /\ pc = "returned"
    /\ verdict = "excluded"
    /\ breeds_arg.isDict
    /\ ~IsBreedExcluded(Breeds(breeds_arg.primary, NotStr))
    /\ ~IsBreedExcluded(Breeds(NotStr, breeds_arg.secondary))
    /\ breeds_arg.primary.s # Trimmed(breeds_arg.primary.s)
    /\ \A term \in EXCLUDED_BREEDS : ~OccursIn(term, RawJoined(breeds_arg))

\* C9: when the zip's holdings are served newest first and no fetch failed,
\* the list the collect call returns holds every listing of the zip that is
\* not earlier than the cutoff.
C9_NoInWindowListingSkipped ==
    (pc = "admit" /\ ~callFailed /\ NewestFirst(upstream[zi])) =>
        \A i \in 1..Len(upstream[zi]) :
            IsWithinWindow(upstream[zi][i]) =>
                \E k \in 1..Len(results) : results[k] = upstream[zi][i]

\* The early stop fired on page 1 of two: the call returned the page with its
\* in-window listing and left the older page unrequested.
C9_Witness ==
    /\ pc = "admit"
    /\ ~callFailed
    /\ stoppedBy = "old_tail"
    /\ requested = <<1>>
    /\ Len(upstream[zi]) > Len(results)
    /\ IsWithinWindow(results[1])

====
